---- MODULE Spec2Model ----
(***************************************************************************)
(* Kirchhoff checker (src/app.py): the grading core and the two button     *)
(* handlers of the Streamlit page.                                         *)
(*                                                                         *)
(* Numbers.  The program computes in float64.  Here a real number is       *)
(*   - an integer, for equation coefficients and circuit parameters;       *)
(*   - an exact rational <<num, den>> with den > 0, for currents and       *)
(*     tolerances (the solver's output is the exact solution);             *)
(*   - a fixed-point integer in units of 1/SCALE, for the components of a  *)
(*     canonicalized (unit-norm) equation, so canonicalization is computed *)
(*     and not assumed.                                                    *)
(* float64 rounding (relative error 2^-53) is below the resolution of the  *)
(* model; matrix_rank's singular-value threshold is modelled as exact rank.*)
(***************************************************************************)
EXTENDS Integers, Sequences, FiniteSets

VARIABLES
    pc,             \* position of the run: see each specification
    ps,             \* PROBLEMS.get(str(set_number)): <<V1,V2,R1,R2,R3>> or <<>>
    javab,          \* JAVAB entry of the set: <<I1,I2,I3>> (rationals, mA) or <<>>
    student_eqs,    \* the three rows of number inputs (src/app.py:182-187)
    expected_eqs,   \* compute_kirchhoff_coefficients(...) (src/app.py:168)
    matches,        \* compare_equations' result
    indep,          \* check_linear_independence's result
    I_in,           \* <<I1_mA, I2_mA, I3_mA>> as entered (rationals, mA)
    I_expected_mA,  \* expected_currents_mA(set_number)
    icons,          \* verdict_icon per current
    result_label,   \* "Correct" / "Almost" / "Incorrect", or the equations' result
    shown,          \* what the page has displayed in this run, in order
    payload,        \* the dict handed to log_submission
    response,       \* what requests.post did in this run ("" before the call)
    status,         \* log_submission's returned status code
    I_A             \* solve_currents_from_params' result (rationals, amperes)

vars == <<pc, ps, javab, student_eqs, expected_eqs, matches, indep, I_in,
          I_expected_mA, icons, result_label, shown, payload, response, status, I_A>>

----------------------------------------------------------------------------
(* Bounds of the model *)

MaxV == 1        \* source voltages range over 0..MaxV volts
MaxR == 2        \* resistances range over 1..MaxR ohms

(* Program constants *)

TOL_I_MA == 1                 \* 1.0 mA
ALMOST_MULT == 2              \* 2.0
ATOL_EQ_COEFF_INV == 10       \* ATOL_EQ_COEFF = 0.1   = 1/10
RTOL_EQ_COEFF_INV == 1000     \* RTOL_EQ_COEFF = 1e-3  = 1/1000
MA_PER_A == 1000              \* the 1e3 of (I_A * 1e3)
HTTP_OK == 200

SCALE == 10 * 10 * 10         \* fixed-point resolution of a canonical component

----------------------------------------------------------------------------
(* Arithmetic helpers *)

Abs(x) == IF x < 0 THEN -x ELSE x

RECURSIVE NewtonSqrt(_, _)
(* floor(sqrt(n)) by Newton's iteration from x >= floor(sqrt(n)), x > 0 *)
NewtonSqrt(n, x) ==
    LET y == (x + n \div x) \div 2
    IN  IF y >= x THEN x ELSE NewtonSqrt(n, y)

(* rationals <<num, den>>, den > 0 *)
Rat(n, d) == IF d < 0 THEN <<-n, -d>> ELSE <<n, d>>
RatOfInt(n) == <<n, 1>>
RatEq(a, b) == a[1] * b[2] = b[1] * a[2]
RatScale(a, k) == <<a[1] * k, a[2]>>
(* |a - b| <= t, cross-multiplied *)
RatAbsDiffLeq(a, b, t) ==
    Abs(a[1] * b[2] - b[1] * a[2]) * t[2] <= t[1] * a[2] * b[2]

Det3(M) ==
      M[1][1] * (M[2][2] * M[3][3] - M[2][3] * M[3][2])
    - M[1][2] * (M[2][1] * M[3][3] - M[2][3] * M[3][1])
    + M[1][3] * (M[2][1] * M[3][2] - M[2][2] * M[3][1])

(* M with column j replaced by the vector b *)
ReplaceCol(M, j, b) ==
    [i \in 1..3 |-> [k \in 1..3 |-> IF k = j THEN b[i] ELSE M[i][k]]]

----------------------------------------------------------------------------
(* Kirchhoff system: src/app.py:100-121 *)

compute_kirchhoff_coefficients(V1, V2, R1, R2, R3) ==
    LET eq1 == << 1, -1, -1, 0>>
        eq2 == <<-R1, 0, -R3, V1>>
        eq3 == <<0, R2, -R3, -V2>>
        eq4 == <<-R1, -R2, 0, V1 - V2>>
    IN  <<eq1, eq2, eq3, eq4>>

(* b = -constants *)
RhsFlipped(eqs) == [i \in 1..3 |-> eqs[i][4]]
Rhs(eqs) == [i \in 1..3 |-> -eqs[i][4]]

(* np.linalg.solve(A, b): the exact solution of A x = b when A is
   non-singular, LinAlgError ("raised") when it is singular. *)
linalg_solve(A, b) ==
    LET det == Det3(A)
    IN  IF det = 0
        THEN [raised |-> TRUE, x |-> <<>>]
        ELSE [raised |-> FALSE,
              x |-> [j \in 1..3 |-> Rat(Det3(ReplaceCol(A, j, b)), det)]]

solve_currents_from_params(V1, V2, R1, R2, R3) ==
    LET eqs == compute_kirchhoff_coefficients(V1, V2, R1, R2, R3)
        A   == [i \in 1..3 |-> SubSeq(eqs[i], 1, 3)]
        b   == Rhs(eqs)
    IN  linalg_solve(A, b)

----------------------------------------------------------------------------
(* Equation helpers: src/app.py:53-97 *)

SumSq(v) == v[1] * v[1] + v[2] * v[2] + v[3] * v[3] + v[4] * v[4]
Sgn(x) == IF x < 0 THEN -1 ELSE IF x > 0 THEN 1 ELSE 0
FirstNonzero(v) == CHOOSE i \in 1..Len(v) :
                       v[i] # 0 /\ \A k \in 1..(i - 1) : v[k] = 0

(* floor(SCALE * ||v||) for v # 0; the start SCALE * sum |v[i]| is above it *)
ScaledNorm(v) ==
    NewtonSqrt(SumSq(v) * SCALE * SCALE,
               SCALE * (Abs(v[1]) + Abs(v[2]) + Abs(v[3]) + Abs(v[4])))

(* v / ||v||, each component in units of 1/SCALE: v[i] * SCALE^2 divided by
   floor(SCALE * ||v||) and cut to an integer, which is within 2/SCALE of
   v[i] / ||v||, and the same for v and -v up to the sign. *)
UnitVector(v) ==
    LET q == ScaledNorm(v)
    IN  [i \in 1..Len(v) |-> Sgn(v[i]) * ((Abs(v[i]) * SCALE * SCALE) \div q)]

(* the sign loop of _canonicalize skipped: v / ||v|| as it is *)
CanonicalizeNoFlip(eq_vec) ==
    IF \A i \in 1..Len(eq_vec) : eq_vec[i] = 0 THEN eq_vec ELSE UnitVector(eq_vec)

(* The first nonzero component of v / ||v|| is the first nonzero component
   of v (a float64 quotient of a nonzero by the norm is nonzero), so the
   sign test reads eq_vec, which the truncation cannot zero. *)
_canonicalize(eq_vec) ==
    IF \A i \in 1..Len(eq_vec) : eq_vec[i] = 0
    THEN eq_vec
    ELSE LET v == UnitVector(eq_vec)
         IN  IF eq_vec[FirstNonzero(eq_vec)] < 0
             THEN [i \in 1..Len(v) |-> -v[i]]
             ELSE v

normalize_equation(eq) == _canonicalize(eq)

(* np.allclose(a, b, rtol, atol): |a - b| <= atol + rtol * |b| in every
   component; a and b in units of 1/SCALE, the inequality multiplied by
   ATOL_EQ_COEFF_INV * RTOL_EQ_COEFF_INV. *)
allclose(a, b) ==
    \A i \in 1..Len(a) :
        ATOL_EQ_COEFF_INV * RTOL_EQ_COEFF_INV * Abs(a[i] - b[i])
            <= RTOL_EQ_COEFF_INV * SCALE + ATOL_EQ_COEFF_INV * Abs(b[i])

RECURSIVE NormalizeAll(_)
(* [normalize_equation(eq) for eq in eqs] *)
NormalizeAll(eqs) ==
    IF eqs = <<>> THEN <<>>
    ELSE <<normalize_equation(Head(eqs))>> \o NormalizeAll(Tail(eqs))

(* each student equation against the expected equation of the same index *)
ComparePositional(student, expected) ==
    LET stud_norm == NormalizeAll(student)
        exp_norm  == NormalizeAll(expected)
    IN  [i \in 1..Len(student) |->
            i <= Len(expected) /\ allclose(stud_norm[i], exp_norm[i])]

compare_equations(student, expected) ==
    LET stud_norm == NormalizeAll(student)
        exp_norm  == NormalizeAll(expected)
    IN  [i \in 1..Len(student) |->
            \E j \in 1..Len(exp_norm) : allclose(stud_norm[i], exp_norm[j])]

(* eq[1:]: the first coefficient dropped instead of the constant term *)
CoeffRowTail(eq) == SubSeq(eq, 2, Len(eq))

(* eq[:-1] *)
CoeffRow(eq) == SubSeq(eq, 1, Len(eq) - 1)

(* np.linalg.matrix_rank of an integer matrix with at most 3 rows or at most
   3 columns: the size of its largest non-vanishing minor. *)
matrix_rank(M) ==
    LET rows == 1..Len(M)
        cols == IF Len(M) = 0 THEN {} ELSE 1..Len(M[1])
        Minor2(i1, i2, j1, j2) == M[i1][j1] * M[i2][j2] - M[i1][j2] * M[i2][j1]
        Minor3(i1, i2, i3, j1, j2, j3) ==
            Det3(<< <<M[i1][j1], M[i1][j2], M[i1][j3]>>,
                    <<M[i2][j1], M[i2][j2], M[i2][j3]>>,
                    <<M[i3][j1], M[i3][j2], M[i3][j3]>> >>)
    IN  IF \E i1, i2, i3 \in rows : \E j1, j2, j3 \in cols :
               i1 < i2 /\ i2 < i3 /\ j1 < j2 /\ j2 < j3
               /\ Minor3(i1, i2, i3, j1, j2, j3) # 0
        THEN 3
        ELSE IF \E i1, i2 \in rows : \E j1, j2 \in cols :
                    i1 < i2 /\ j1 < j2 /\ Minor2(i1, i2, j1, j2) # 0
        THEN 2
        ELSE IF \E i \in rows : \E j \in cols : M[i][j] # 0
        THEN 1
        ELSE 0

check_linear_independence(equations) ==
    LET coeff_matrix == [i \in 1..Len(equations) |-> CoeffRow(equations[i])]
    IN  matrix_rank(coeff_matrix) = Len(equations)

----------------------------------------------------------------------------
(* Current helpers: src/app.py:32-50 *)

verdict_icon(ok, almost) ==
    IF ok THEN "ok" ELSE IF almost THEN "almost" ELSE "wrong"

(* abs(student_val - target_val) < tol_abs: the boundary left out *)
IsWithinStrict(student_val, target_val, tol_abs) ==
    Abs(student_val[1] * target_val[2] - target_val[1] * student_val[2]) * tol_abs[2]
        < tol_abs[1] * student_val[2] * target_val[2]

is_within(student_val, target_val, tol_abs) ==
    RatAbsDiffLeq(student_val, target_val, tol_abs)

almost_within(student_val, target_val, tol_abs) ==
    (~ is_within(student_val, target_val, tol_abs))
    /\ is_within(student_val, target_val, RatScale(tol_abs, ALMOST_MULT))

(* requests.post's outcomes *)
Outcomes == {"http200", "http500", "timeout", "connection_error"}
ResponseStatus(outcome) == IF outcome = "http200" THEN HTTP_OK ELSE 500
IsException(outcome) == outcome \in {"timeout", "connection_error"}

(* the call without its try/except: an exception of requests.post escapes *)
LogSubmissionUnguarded(outcome) ==
    IF IsException(outcome)
    THEN [raised |-> TRUE, status |-> 0]
    ELSE [raised |-> FALSE, status |-> ResponseStatus(outcome)]

log_submission(outcome) ==
    IF IsException(outcome)
    THEN [raised |-> FALSE, status |-> -1]
    ELSE [raised |-> FALSE, status |-> ResponseStatus(outcome)]

----------------------------------------------------------------------------
(* Inputs *)

Voltages == 0..MaxV
Resistances == 1..MaxR
ParamSets == {<<V1, V2, R1, R2, R3>> :
                 V1 \in Voltages, V2 \in Voltages,
                 R1 \in Resistances, R2 \in Resistances, R3 \in Resistances}

(* the variables a specification does not use *)
NoRun ==
    /\ javab = <<>> /\ student_eqs = <<>> /\ expected_eqs = <<>>
    /\ matches = <<>> /\ indep = FALSE /\ I_in = <<>> /\ I_expected_mA = <<>>
    /\ icons = <<>> /\ result_label = "" /\ shown = <<>> /\ payload = <<>>
    /\ response = "" /\ status = 0 /\ I_A = <<>>

----------------------------------------------------------------------------
(* SpecSolve: compute_kirchhoff_coefficients and solve_currents_from_params
   applied to every parameter set, in either order (neither reads the
   other's result).  pc: "call" until both have returned, then "return";
   "raised" when np.linalg.solve raises. *)

InitSolve ==
    /\ pc = "call"
    /\ ps \in ParamSets
    /\ NoRun

ComputeCoefficients ==
    /\ pc = "call"
    /\ expected_eqs = <<>>
    /\ expected_eqs' = compute_kirchhoff_coefficients(ps[1], ps[2], ps[3], ps[4], ps[5])
    /\ pc' = IF I_A # <<>> THEN "return" ELSE "call"
    /\ UNCHANGED <<ps, javab, student_eqs, matches, indep, I_in, I_expected_mA,
                   icons, result_label, shown, payload, response, status, I_A>>

SolveCurrents ==
    /\ pc = "call"
    /\ I_A = <<>>
    /\ LET r == solve_currents_from_params(ps[1], ps[2], ps[3], ps[4], ps[5])
       IN  /\ I_A' = r.x
           /\ pc' = IF r.raised THEN "raised"
                    ELSE IF expected_eqs # <<>> THEN "return" ELSE "call"
    /\ UNCHANGED <<ps, javab, student_eqs, expected_eqs, matches, indep, I_in,
                   I_expected_mA, icons, result_label, shown, payload, response, status>>

NextSolve == ComputeCoefficients \/ SolveCurrents

SpecSolve == InitSolve /\ [][NextSolve]_vars

(* q * eq4 = a * eq1 + b * eq2 + c * eq3 with integers |a|,|b|,|c|,q <= CombMax.
   The (A, B, C) rows of eq1..eq3 are independent, so the combination that
   gives eq4's (A, B, C) is unique: it is (a, b, c) = q * (0, 1, -1). *)
CombMax == 2
IsCombination(eqs) ==
    \E q \in 1..CombMax : \E a, b, c \in (-CombMax)..CombMax :
        \A j \in 1..4 :
            q * eqs[4][j] = a * eqs[1][j] + b * eqs[2][j] + c * eqs[3][j]

(* C4: the outer-loop equation returned by compute_kirchhoff_coefficients is
   a linear combination, as a 4-vector (A, B, C, D), of the junction,
   left-loop and right-loop equations of the same call. *)
C4_OuterLoopIsCombination ==
    expected_eqs # <<>> => IsCombination(expected_eqs)

Residual(eq, I) ==
    \* (A*I1 + B*I2 + C*I3 + D) times the common denominator I[1][2]
    eq[1] * I[1][1] + eq[2] * I[2][1] + eq[3] * I[3][1] + eq[4] * I[1][2]

KernelBox == (-MaxR)..MaxR
(* C5: with R1, R2, R3 > 0 the junction / left-loop / right-loop matrix is
   non-singular (solve does not raise and no nonzero vector of the box is
   in its kernel), and the returned (I1, I2, I3) satisfies
   A*I1 + B*I2 + C*I3 + D = 0 for each of those three equations. *)
C5_SolutionSatisfiesEquations ==
    /\ pc # "raised"
    /\ pc = "return" =>
          /\ \A i \in 1..3 : I_A[i][2] = I_A[1][2] /\ I_A[i][2] > 0
          /\ \A k \in 1..3 : Residual(expected_eqs[k], I_A) = 0
          /\ \A x, y, z \in KernelBox :
                (\A k \in 1..3 : expected_eqs[k][1] * x + expected_eqs[k][2] * y
                                   + expected_eqs[k][3] * z = 0)
                => (x = 0 /\ y = 0 /\ z = 0)

C5_Witness ==
    /\ pc = "return"
    /\ ps = <<1, 1, 1, 2, 1>>
    /\ I_A[1][1] # 0 /\ I_A[2][1] # 0

----------------------------------------------------------------------------
(* SpecVerdict: is_within / almost_within / verdict_icon applied to one
   submitted value, one expected value and one tolerance, all multiples of
   1/2 mA.  pc: "call" -> "return". *)

MaxVal == 9      \* values range over 0, 1/2, ..., MaxVal/2 mA
MaxTol == 3      \* tolerances range over 1/2, ..., MaxTol/2 mA
Halves(n) == <<n, 2>>

InitVerdict ==
    /\ pc = "call"
    /\ ps = <<>>
    /\ \E s \in 0..MaxVal : I_in = <<Halves(s)>>
    /\ \E e \in 0..MaxVal : I_expected_mA = <<Halves(e)>>
    /\ \E t \in 1..MaxTol : payload = [Tolerance_mA |-> Halves(t)]
    /\ javab = <<>> /\ student_eqs = <<>> /\ expected_eqs = <<>>
    /\ matches = <<>> /\ indep = FALSE /\ icons = <<>> /\ result_label = ""
    /\ shown = <<>> /\ response = "" /\ status = 0 /\ I_A = <<>>

Classify ==
    /\ pc = "call"
    /\ LET ok     == is_within(I_in[1], I_expected_mA[1], payload.Tolerance_mA)
           almost == almost_within(I_in[1], I_expected_mA[1], payload.Tolerance_mA)
       IN  icons' = <<verdict_icon(ok, almost)>>
    /\ pc' = "return"
    /\ UNCHANGED <<ps, javab, student_eqs, expected_eqs, matches, indep, I_in,
                   I_expected_mA, result_label, shown, payload, response, status, I_A>>

NextVerdict == Classify

SpecVerdict == InitVerdict /\ [][NextVerdict]_vars

(* |s - e| and t in half-mA units *)
Deviation == Abs(I_in[1][1] - I_expected_mA[1][1])
Tol == payload.Tolerance_mA[1]

(* C1: the per-value verdict is Correct exactly when |s - e| <= t, Almost
   exactly when t < |s - e| <= 2t, Incorrect exactly when |s - e| > 2t; one
   and only one of the three. *)
C1_VerdictBands ==
    pc = "return" =>
        /\ icons[1] \in {"ok", "almost", "wrong"}
        /\ (icons[1] = "ok")     <=> (Deviation <= Tol)
        /\ (icons[1] = "almost") <=> (Tol < Deviation /\ Deviation <= 2 * Tol)
        /\ (icons[1] = "wrong")  <=> (Deviation > 2 * Tol)

(* t = 1.0 mA and a deviation of exactly 2.0 mA: Almost *)
C1_Witness ==
    /\ pc = "return"
    /\ Tol = 2 /\ Deviation = 4
    /\ icons[1] = "almost"

----------------------------------------------------------------------------
(* Spec: the page.  One selected problem set (ps, javab), then button runs:
     "idle" --Check my equations--> "eq_log" --log_submission--> "eq_done"
     "idle" --Check my currents---> "cur_log" --log_submission--> "cur_done"
   and a rerun of the script leads back to "idle".  "eq_log" and "cur_log"
   are the handler at its call of requests.post; "crashed" is a handler left
   by an uncaught exception. *)

Line(kind, idx, val) == [kind |-> kind, idx |-> idx, val |-> val]

AllOf(bs) == \A i \in 1..Len(bs) : bs[i]
AnyOf(bs) == \E i \in 1..Len(bs) : bs[i]

(* the solver's amperes used as they are *)
ExpectedCurrentsUnscaled(entry, params) ==
    IF entry # <<>>
    THEN [raised |-> FALSE, x |-> entry]
    ELSE solve_currents_from_params(params[1], params[2], params[3], params[4], params[5])

(* src/app.py:225-232; entry is JAVAB[key], or <<>> when key is not in JAVAB.
   float() of a JSON number keeps its value: the entry's rationals as they are. *)
expected_currents_mA(entry, params) ==
    IF entry # <<>>
    THEN [raised |-> FALSE, x |-> entry]
    ELSE LET r == solve_currents_from_params(params[1], params[2], params[3],
                                             params[4], params[5])
         IN  IF r.raised THEN r
             ELSE [raised |-> FALSE,
                   x |-> [i \in 1..3 |-> RatScale(r.x[i], MA_PER_A)]]

(* src/app.py:207 *)
EqResult(m, ind) ==
    IF AllOf(m) /\ ind THEN "All match"
    ELSE IF AnyOf(m) THEN "Partial/Not independent" ELSE "No match"

(* any_almost taken only when no value is Incorrect *)
AggregateAlmostNeedsNoWrong(oks, almosts) ==
    IF AllOf(oks) THEN "Correct"
    ELSE IF AnyOf(almosts) /\ \A i \in 1..3 : oks[i] \/ almosts[i] THEN "Almost"
    ELSE "Incorrect"

(* src/app.py:245-261 *)
Aggregate(oks, almosts) ==
    IF AllOf(oks) THEN "Correct"
    ELSE IF AnyOf(almosts) THEN "Almost"
    ELSE "Incorrect"

Banner(label) ==
    IF label = "Correct" THEN "success"
    ELSE IF label = "Almost" THEN "warning" ELSE "error"

(* Problem data: data/problems.json and data/javab.json are read at start-up;
   any parameter set with positive resistances, or no set under the chosen
   number; an answer entry (mA) or none. *)
JavabEntries ==
    { <<>>,
      << <<0, 1>>, <<500, 1>>, <<1235, 100>> >>,
      << <<1000, 1>>, <<0, 1>>, <<1000, 1>> >> }

(* Equations a student enters: the junction equation, the left loop times
   -2, the right loop, the outer loop, and the untouched all-zero row. *)
EqInputs(exp) ==
    { exp[1],
      [j \in 1..4 |-> -2 * exp[2][j]],
      exp[4],
      <<0, 0, 0, 0>> }

(* Currents a student enters (step 0.01 mA, min_value 0.0): the expected
   value cut to 0.01 mA, and 1.5 mA and 3 mA above it. *)
Deviations == {0, 150, 300}
Max0(x) == IF x < 0 THEN 0 ELSE x
CurrentInputs(e) ==
    { <<Max0((100 * e[1]) \div e[2] + d), 100>> : d \in Deviations }

Init ==
    /\ pc = "idle"
    /\ ps \in ParamSets \cup {<<>>}
    /\ javab \in JavabEntries
    /\ expected_eqs = IF ps = <<>> THEN <<>>
                      ELSE compute_kirchhoff_coefficients(ps[1], ps[2], ps[3], ps[4], ps[5])
    /\ student_eqs = <<>> /\ matches = <<>> /\ indep = FALSE
    /\ I_in = <<>> /\ I_expected_mA = <<>> /\ icons = <<>> /\ result_label = ""
    /\ shown = <<>> /\ payload = <<>> /\ response = "" /\ status = 0 /\ I_A = <<>>

(* src/app.py:189-209, up to the call of log_submission *)
CheckEquations ==
    /\ pc = "idle"
    /\ ps # <<>>                       \* st.stop() otherwise
    /\ \E e1, e2, e3 \in EqInputs(expected_eqs) :
        LET eqs == <<e1, e2, e3>>
        IN  /\ student_eqs' = eqs
            /\ matches' = compare_equations(eqs, expected_eqs)
            /\ indep' = check_linear_independence(eqs)
    /\ shown' = [i \in 1..3 |-> Line("equation", i, verdict_icon(matches'[i], FALSE))]
                \o (IF indep' THEN <<>> ELSE <<Line("warning", 0, "not independent")>>)
    /\ payload' = [sheet |-> "Kirchhoff_Equations", eqs |-> student_eqs',
                   Result |-> EqResult(matches', indep')]
    /\ pc' = "eq_log"
    /\ UNCHANGED <<ps, javab, expected_eqs, I_in, I_expected_mA, icons,
                   result_label, response, status, I_A>>

(* src/app.py:234-278, up to the call of log_submission *)
CheckCurrents ==
    /\ pc = "idle"
    /\ ps # <<>>
    /\ LET r == expected_currents_mA(javab, ps)
       IN  IF r.raised
           THEN /\ pc' = "crashed"
                /\ UNCHANGED <<I_in, I_expected_mA, icons, result_label, shown, payload>>
           ELSE \E s1 \in CurrentInputs(r.x[1]), s2 \in CurrentInputs(r.x[2]),
                   s3 \in CurrentInputs(r.x[3]) :
                LET I       == <<s1, s2, s3>>
                    tol     == RatOfInt(TOL_I_MA)
                    oks     == [i \in 1..3 |-> is_within(I[i], r.x[i], tol)]
                    almosts == [i \in 1..3 |-> almost_within(I[i], r.x[i], tol)]
                    label   == Aggregate(oks, almosts)
                IN  /\ I_in' = I
                    /\ I_expected_mA' = r.x
                    /\ icons' = [i \in 1..3 |-> verdict_icon(oks[i], almosts[i])]
                    /\ result_label' = label
                    /\ shown' = [i \in 1..3 |->
                                    Line("current", i, verdict_icon(oks[i], almosts[i]))]
                                \o <<Line(Banner(label), 0, label)>>
                    /\ payload' = [sheet |-> "Kirchhoff_Currents", I |-> I,
                                   I_exp |-> r.x, Tolerance_mA |-> tol,
                                   Result |-> label]
                    /\ pc' = "cur_log"
    /\ UNCHANGED <<ps, javab, student_eqs, expected_eqs, matches, indep,
                   response, status, I_A>>

(* src/app.py:210-213 and 279-282: log_submission(payload) and what follows *)
LogSubmission ==
    /\ pc \in {"eq_log", "cur_log"}
    /\ \E outcome \in Outcomes :
        LET r == log_submission(outcome)
        IN  /\ response' = outcome
            /\ IF r.raised
               THEN /\ pc' = "crashed"
                    /\ UNCHANGED <<status, shown>>
               ELSE /\ status' = r.status
                    /\ shown' = IF r.status # HTTP_OK
                                THEN shown \o <<Line("info", r.status, "logging issue")>>
                                ELSE shown
                    /\ pc' = IF pc = "eq_log" THEN "eq_done" ELSE "cur_done"
    /\ UNCHANGED <<ps, javab, student_eqs, expected_eqs, matches, indep, I_in,
                   I_expected_mA, icons, result_label, payload, I_A>>

(* the next interaction reruns the script: the button reads False again *)
Rerun ==
    /\ pc \in {"eq_done", "cur_done"}
    /\ pc' = "idle"
    /\ student_eqs' = <<>> /\ matches' = <<>> /\ indep' = FALSE
    /\ I_in' = <<>> /\ I_expected_mA' = <<>> /\ icons' = <<>> /\ result_label' = ""
    /\ shown' = <<>> /\ payload' = <<>> /\ response' = "" /\ status' = 0
    /\ UNCHANGED <<ps, javab, expected_eqs, I_A>>

Next == CheckEquations \/ CheckCurrents \/ LogSubmission \/ Rerun

Spec == Init /\ [][Next]_vars

----------------------------------------------------------------------------
(* Claims on Spec *)

CurrentsChecked == pc \in {"cur_log", "cur_done"}
EquationsChecked == pc \in {"eq_log", "eq_done"}

(* C2: the aggregate verdict of a current submission is Correct iff all
   three per-value verdicts are Correct; otherwise Almost iff at least one
   is Almost, whatever the other two; otherwise Incorrect. *)
C2_AggregateVerdict ==
    CurrentsChecked =>
        LET allCorrect == \A i \in 1..3 : icons[i] = "ok"
            someAlmost == \E i \in 1..3 : icons[i] = "almost"
        IN  /\ (result_label = "Correct") <=> allCorrect
            /\ (result_label = "Almost") <=> (~ allCorrect /\ someAlmost)
            /\ (result_label = "Incorrect") <=> (~ allCorrect /\ ~ someAlmost)

(* one Almost and two Incorrect values: aggregate Almost *)
C2_Witness ==
    /\ CurrentsChecked
    /\ icons = <<"wrong", "almost", "wrong">>
    /\ result_label = "Almost"

(* what the page shows for the verdict held in the state *)
EquationVerdictShown ==
    /\ Len(shown) >= 3
    /\ \A i \in 1..3 : shown[i] = Line("equation", i, verdict_icon(matches[i], FALSE))
    /\ (~ indep) => (Len(shown) >= 4 /\ shown[4] = Line("warning", 0, "not independent"))
    /\ payload.Result \in {"All match", "Partial/Not independent", "No match"}

CurrentVerdictShown ==
    /\ Len(shown) >= 4
    /\ \A i \in 1..3 : shown[i] = Line("current", i, icons[i])
    /\ shown[4] = Line(Banner(result_label), 0, result_label)
    /\ result_label \in {"Correct", "Almost", "Incorrect"}
    /\ payload.Result = result_label

C3_State ==
    /\ pc # "crashed"
    /\ EquationsChecked => EquationVerdictShown
    /\ CurrentsChecked => CurrentVerdictShown
    /\ pc \in {"eq_log", "cur_log"} => (response = "" /\ status = 0)
    /\ pc \in {"eq_done", "cur_done"} =>
          /\ response \in Outcomes
          /\ IsException(response) => status = -1
          /\ (~ IsException(response)) => status = ResponseStatus(response)

C3_Step ==
    pc \in {"eq_log", "cur_log"} =>
        /\ pc' = (IF pc = "eq_log" THEN "eq_done" ELSE "cur_done")
        /\ UNCHANGED <<matches, indep, icons, result_label, payload,
                       student_eqs, I_in, I_expected_mA>>
        /\ Len(shown') >= Len(shown)
        /\ SubSeq(shown', 1, Len(shown)) = shown

(* C3: in both grading paths the verdict is computed and shown before the
   logging request is attempted; whatever the request does (non-200 status,
   timeout, exception) the handler ends without an error, the verdict and
   what was shown of it stay as they were, and log_submission returns
   status -1 on an exception. *)
C3_LoggingNeverAffectsVerdict == [] C3_State /\ [][C3_Step]_vars

C3_Witness ==
    /\ pc = "cur_done"
    /\ response = "timeout" /\ status = -1
    /\ result_label = "Correct"
    /\ CurrentVerdictShown
    /\ Len(shown) = 5

(* (A*I1 + B*I2 + C*I3) + D = 0 with I in mA and the equation in volts and
   ohms: A*I1 + B*I2 + C*I3 + 1000*D = 0, times the common denominator. *)
ResidualMilli(eq, I) ==
      eq[1] * I[1][1] * I[2][2] * I[3][2]
    + eq[2] * I[2][1] * I[1][2] * I[3][2]
    + eq[3] * I[3][1] * I[1][2] * I[2][2]
    + MA_PER_A * eq[4] * I[1][2] * I[2][2] * I[3][2]

Band(s, e) ==
    \* the tolerance band of |s - e| for TOL_I_MA
    IF RatAbsDiffLeq(s, e, RatOfInt(TOL_I_MA)) THEN "ok"
    ELSE IF RatAbsDiffLeq(s, e, RatOfInt(ALMOST_MULT * TOL_I_MA)) THEN "almost"
    ELSE "wrong"

(* C9: the expected currents of a graded set are the answer table's entry
   as it stands when there is one, and otherwise the solver's amperes times
   1000, once (so that, in mA, they solve the set's junction and loop
   equations); that one vector is compared with all three submitted values
   and is the one in the log payload. *)
C9_ExpectedCurrents ==
    CurrentsChecked =>
        /\ javab # <<>> => I_expected_mA = javab
        /\ javab = <<>> =>
              LET r == solve_currents_from_params(ps[1], ps[2], ps[3], ps[4], ps[5])
              IN  /\ \A i \in 1..3 :
                        RatEq(I_expected_mA[i], <<MA_PER_A * r.x[i][1], r.x[i][2]>>)
                  /\ \A k \in 1..3 : ResidualMilli(expected_eqs[k], I_expected_mA) = 0
        /\ payload.I_exp = I_expected_mA
        /\ \A i \in 1..3 : icons[i] = Band(I_in[i], I_expected_mA[i])

(* no table entry: V1 = 1, V2 = 0, R1 = R2 = R3 = 1 gives (2000/3, 1000/3, 1000/3) mA *)
C9_Witness ==
    /\ CurrentsChecked
    /\ javab = <<>>
    /\ ps = <<1, 0, 1, 1, 1>>
    /\ \E i \in 1..3 : I_expected_mA[i][1] # 0 /\ icons[i] = "ok"

IsMultipleOfExpected(eq) ==
    \E j \in 1..4 : \E k \in {-3, -2, -1, 1, 2, 3} :
        eq = [c \in 1..4 |-> k * expected_eqs[j][c]]

(* C10: when the equation check reports "All match" for student equations
   that are exact nonzero multiples of expected equations, the reference
   currents of the same parameters satisfy all three student equations. *)
C10_AcceptedSystemHasReferenceSolution ==
    (/\ EquationsChecked
     /\ payload.Result = "All match"
     /\ \A i \in 1..3 : IsMultipleOfExpected(student_eqs[i]))
    => LET r == solve_currents_from_params(ps[1], ps[2], ps[3], ps[4], ps[5])
       IN  \A i \in 1..3 : Residual(student_eqs[i], r.x) = 0

----------------------------------------------------------------------------
(* SpecScaled: compare_equations and check_linear_independence applied to
   the junction, left-loop and right-loop equations of a parameter set, each
   used once, in any order, each multiplied by its own nonzero scalar.
   pc: "call" -> "return". *)

MaxScale == 2
Scalars == {-MaxScale, -1, 1, MaxScale}
Permutations(n) ==
    {p \in [1..n -> 1..n] : \A i, j \in 1..n : i # j => p[i] # p[j]}
Times(k, eq) == [c \in 1..Len(eq) |-> k * eq[c]]

InitScaled ==
    /\ pc = "call"
    /\ ps \in ParamSets
    /\ expected_eqs = compute_kirchhoff_coefficients(ps[1], ps[2], ps[3], ps[4], ps[5])
    /\ \E p \in Permutations(3) : \E k \in [1..3 -> Scalars] :
          student_eqs = [i \in 1..3 |-> Times(k[i], expected_eqs[p[i]])]
    /\ javab = <<>> /\ matches = <<>> /\ indep = FALSE /\ I_in = <<>>
    /\ I_expected_mA = <<>> /\ icons = <<>> /\ result_label = "" /\ shown = <<>>
    /\ payload = <<>> /\ response = "" /\ status = 0 /\ I_A = <<>>

(* src/app.py:190-191 *)
GradeEquations ==
    /\ pc = "call"
    /\ matches' = compare_equations(student_eqs, expected_eqs)
    /\ indep' = check_linear_independence(student_eqs)
    /\ pc' = "return"
    /\ UNCHANGED <<ps, javab, student_eqs, expected_eqs, I_in, I_expected_mA,
                   icons, result_label, shown, payload, response, status, I_A>>

NextScaled == GradeEquations

SpecScaled == InitScaled /\ [][NextScaled]_vars

(* C6: three student equations that are the junction, left-loop and
   right-loop equations, in any order, each times its own nonzero scalar of
   either sign: compare_equations returns [true, true, true] and
   check_linear_independence returns true. *)
C6_ScaledSetAccepted ==
    pc = "return" => (matches = <<TRUE, TRUE, TRUE>> /\ indep = TRUE)

(* order right, junction, left; scalars -2, 1, -1 *)
C6_Witness ==
    /\ pc = "return"
    /\ student_eqs = <<Times(-2, expected_eqs[3]), expected_eqs[1],
                       Times(-1, expected_eqs[2])>>
    /\ ps[2] # 0
    /\ matches = <<TRUE, TRUE, TRUE>>

----------------------------------------------------------------------------
(* SpecIndep: check_linear_independence applied to three equations: the
   first with coefficients in 0..MaxCoef, the second with coefficients in
   -MaxCoef..MaxCoef, the third either a unit row or a combination
   a*eq1 + b*eq2 of the first two, each with its own constant (a repeated
   equation, an equation that differs only in D and the zero row among
   them).  pc: "call" -> "return". *)

MaxCoef == 1
Coefs == (-MaxCoef)..MaxCoef
Constants01 == {0, 1}
FirstRows == {<<a, b, c, 0>> : a \in 0..MaxCoef, b \in 0..MaxCoef, c \in 0..MaxCoef}
SecondRows == {<<a, b, c, 1>> : a \in Coefs, b \in Coefs, c \in Coefs}
UnitRows == {<<1, 0, 0, 0>>, <<0, 1, 0, 1>>, <<0, 0, 1, 0>>}
Combinations(e1, e2) ==
    {<<a * e1[1] + b * e2[1], a * e1[2] + b * e2[2], a * e1[3] + b * e2[3], d>> :
        a \in -1..1, b \in -1..1, d \in Constants01}

InitIndep ==
    /\ pc = "call"
    /\ ps = <<>>
    /\ \E e1 \in FirstRows : \E e2 \in SecondRows :
       \E e3 \in UnitRows \cup Combinations(e1, e2) :
          student_eqs = <<e1, e2, e3>>
    /\ javab = <<>> /\ expected_eqs = <<>> /\ matches = <<>> /\ indep = FALSE
    /\ I_in = <<>> /\ I_expected_mA = <<>> /\ icons = <<>> /\ result_label = ""
    /\ shown = <<>> /\ payload = <<>> /\ response = "" /\ status = 0 /\ I_A = <<>>

(* src/app.py:191 *)
CheckIndependence ==
    /\ pc = "call"
    /\ indep' = check_linear_independence(student_eqs)
    /\ pc' = "return"
    /\ UNCHANGED <<ps, javab, student_eqs, expected_eqs, matches, I_in,
                   I_expected_mA, icons, result_label, shown, payload, response,
                   status, I_A>>

NextIndep == CheckIndependence

SpecIndep == InitIndep /\ [][NextIndep]_vars

ABC(eq) == <<eq[1], eq[2], eq[3]>>
(* z[1]*row1 + z[2]*row2 + z[3]*row3 = 0 on the (A, B, C) coefficients *)
Annihilates(z, eqs) ==
    \A c \in 1..3 : z[1] * eqs[1][c] + z[2] * eqs[2][c] + z[3] * eqs[3][c] = 0
(* row i is a combination of the other two with coefficients in -1..1 *)
RowIsSmallCombination(eqs) ==
    \E a, b \in -1..1 :
        \/ Annihilates(<<-1, a, b>>, eqs)
        \/ Annihilates(<<a, -1, b>>, eqs)
        \/ Annihilates(<<a, b, -1>>, eqs)
(* Candidate dependencies of a singular system: the cofactors of a column of
   the (A, B, C) matrix, and the pairwise ones. *)
Cofactors(eqs, c1, c2) ==
    << eqs[2][c1] * eqs[3][c2] - eqs[2][c2] * eqs[3][c1],
       eqs[3][c1] * eqs[1][c2] - eqs[3][c2] * eqs[1][c1],
       eqs[1][c1] * eqs[2][c2] - eqs[1][c2] * eqs[2][c1] >>
DependencyCandidates(eqs) ==
    {Cofactors(eqs, 1, 2), Cofactors(eqs, 1, 3), Cofactors(eqs, 2, 3)}
    \cup {<<eqs[2][c], -eqs[1][c], 0>> : c \in 1..3}
    \cup {<<0, eqs[3][c], -eqs[2][c]>> : c \in 1..3}
    \cup {<<1, 0, 0>>, <<0, 1, 0>>}
HasDependency(eqs) ==
    \E z \in DependencyCandidates(eqs) : z # <<0, 0, 0>> /\ Annihilates(z, eqs)
WithConstants(eqs, d) == [i \in 1..3 |-> <<eqs[i][1], eqs[i][2], eqs[i][3], d[i]>>]
ConstantChoices == {<<0, 0, 0>>, <<1, 0, 0>>, <<0, 1, 0>>, <<0, 0, 1>>, <<1, 1, 1>>}

(* C8: check_linear_independence reads only (A, B, C): its result is the
   same for every choice of the constants D; it is false whenever one
   (A, B, C) row is a combination of the other two (a repeated equation, two
   equations differing only in D), and it is true exactly when the rank of
   the (A, B, C) matrix is the number of equations, that is, when no nonzero
   combination of the three rows vanishes. *)
C8_IndependenceOnCoefficients ==
    pc = "return" =>
        /\ \A d \in ConstantChoices :
              check_linear_independence(WithConstants(student_eqs, d)) = indep
        /\ RowIsSmallCombination(student_eqs) => ~ indep
        /\ indep <=> (matrix_rank([i \in 1..3 |-> ABC(student_eqs[i])]) = Len(student_eqs))
        /\ indep <=> ~ HasDependency(student_eqs)

(* eq3 has eq1's coefficients and another constant; the tail (B, C, D) of the
   three rows is independent *)
C8_Witness ==
    /\ pc = "return"
    /\ student_eqs = << <<1, 1, 0, 0>>, <<0, 1, -1, 1>>, <<1, 1, 0, 1>> >>
    /\ indep = FALSE

----------------------------------------------------------------------------
(* SpecCompare: compare_equations applied to one to three student equations
   and the four expected equations of a parameter set.  The student
   equations are the right loop times -1 (a match), the left loop with its
   first coefficient off by one, and the all-zero row.
   pc: "call" -> "return". *)

StudentPool(exp) ==
    { Times(-1, exp[3]),
      <<exp[2][1] + 1, exp[2][2], exp[2][3], exp[2][4]>>,
      <<0, 0, 0, 0>> }
Lists(S) == {<<a>> : a \in S} \cup {<<a, b>> : a \in S, b \in S}
            \cup {<<a, b, c>> : a \in S, b \in S, c \in S}

InitCompare ==
    /\ pc = "call"
    /\ ps \in ParamSets
    /\ expected_eqs = compute_kirchhoff_coefficients(ps[1], ps[2], ps[3], ps[4], ps[5])
    /\ student_eqs \in Lists(StudentPool(expected_eqs))
    /\ javab = <<>> /\ matches = <<>> /\ indep = FALSE /\ I_in = <<>>
    /\ I_expected_mA = <<>> /\ icons = <<>> /\ result_label = "" /\ shown = <<>>
    /\ payload = <<>> /\ response = "" /\ status = 0 /\ I_A = <<>>

(* src/app.py:190 *)
CompareEquations ==
    /\ pc = "call"
    /\ matches' = compare_equations(student_eqs, expected_eqs)
    /\ pc' = "return"
    /\ UNCHANGED <<ps, javab, student_eqs, expected_eqs, indep, I_in,
                   I_expected_mA, icons, result_label, shown, payload, response,
                   status, I_A>>

NextCompare == CompareEquations

SpecCompare == InitCompare /\ [][NextCompare]_vars

Permuted(seq, p) == [i \in 1..Len(seq) |-> seq[p[i]]]
MatchesOne(s, e) == allclose(normalize_equation(s), normalize_equation(e))

(* C7: compare_equations returns one boolean per student equation, in
   student order, the i-th true iff student equation i matches at least one
   expected equation; the result is the same for every permutation of the
   expected equations, and permuting the student equations permutes it the
   same way. *)
C7_CompareOrderIndependent ==
    pc = "return" =>
        /\ Len(matches) = Len(student_eqs)
        /\ \A i \in 1..Len(student_eqs) :
              matches[i] <=> \E j \in 1..Len(expected_eqs) :
                                 MatchesOne(student_eqs[i], expected_eqs[j])
        /\ \A p \in Permutations(Len(expected_eqs)) :
              compare_equations(student_eqs, Permuted(expected_eqs, p)) = matches
        /\ \A q \in Permutations(Len(student_eqs)) :
              compare_equations(Permuted(student_eqs, q), expected_eqs)
                  = Permuted(matches, q)

(* the zero row first, the right loop (negated) second: only the second
   matches, and it matches the third expected equation *)
C7_Witness ==
    /\ pc = "return"
    /\ Len(student_eqs) = 2
    /\ student_eqs[1] = <<0, 0, 0, 0>>
    /\ student_eqs[2] = Times(-1, expected_eqs[3])
    /\ matches = <<FALSE, TRUE>>

====
